---- MODULE Spec2Model ----
(***************************************************************************)
(* Model of the ProjectReecall pipeline.                                   *)
(*                                                                         *)
(*   SpecPre    src/src/preprocess.py : preprocess, the checkpointed batch *)
(*              runner (load_checkpoint, save_checkpoint, the batch loop), *)
(*              with process crashes and restarts.                         *)
(*   SpecLabel  src/src/semantic.py : the label cache (load at import,     *)
(*              save_cache), label_conversation_summary and batch_label,   *)
(*              with process crashes and restarts.                         *)
(*   SpecRef    src/src/build_ref.py : regroup_ref_llm, the aggregation of *)
(*              the labels file and the regrouping call.                   *)
(***************************************************************************)
EXTENDS Integers, Sequences, FiniteSets, TLC

\* ------------------------------------------------------------------ bounds

\* Largest number of files in the input directory of preprocess.
MaxN == 4
\* Largest --batch-size given to preprocess.
MaxBatch == 3
\* Largest number of crashes of the preprocess process in one behaviour.
MaxCrashes == 1

\* ------------------------------------------------------------------- state

\* preprocess.py
VARIABLES
    total,          \* len(files): number of files of the sorted list
    batch_size,     \* the --batch-size option
    cp_file,        \* the checkpoint file (its text is a sequence of characters)
    ppc,            \* position of the preprocess process
    start_idx,      \* value returned by load_checkpoint
    idx,            \* loop variable of  for idx in range(start_idx, total, batch_size)
    batch,          \* files[idx: idx + batch_size], as indices into the sorted list
    k,              \* position of the inner loop in batch (1-based)
    attempted,      \* history: indices whose try-block was entered in this run, in order
    failed,         \* history: indices whose try-block raised in this run
    written,        \* history: the save_checkpoint calls completed in this run
    cp_at_start,    \* history: the checkpoint file as load_checkpoint found it in this run
    prev_attempted, \* history: indices attempted by the runs that crashed
    first_start,    \* history: start_idx of the first run that read the checkpoint
    crashes         \* number of crashes so far

pvars == <<total, batch_size, cp_file, ppc, start_idx, idx, batch, k, attempted,
           failed, written, cp_at_start, prev_attempted, first_start, crashes>>

\* semantic.py
VARIABLES
    files,          \* the sorted input files of batch_label, each with its conversations
    cache_file,     \* ./label_cache.json (its text is a sequence of JSON tokens)
    label_cache,    \* the module-level dict, as its items in insertion order
    lpc,            \* position of the labelling process
    fi,             \* index of the file of  for path in files  (1-based)
    ci,             \* index of the conversation in the file (1-based)
    label,          \* the local  label  of label_conversation_summary / batch_label
    pending,        \* save_cache: the tokens json.dump has still to write
    fout,           \* the output file: one record per line written
    calls,          \* history: the classification calls of this process, in order
    startup_keys,   \* history: the keys of the cache as loaded by this process
    flushed,        \* history: the cache file as the last completed save_cache (or the start) left it
    quota_lines,    \* history: len(fout) when the first quota signal of this run was raised
    out1,           \* history: the lines written by the previous run, when it completed
    prior,          \* history: how the previous process ended ("done_quota": completed, after a quota signal)
    lrun            \* number of the process (1 = first)

lvars == <<files, cache_file, label_cache, lpc, fi, ci, label, pending, fout, calls,
           startup_keys, flushed, quota_lines, out1, prior, lrun>>

\* build_ref.py
VARIABLES
    nlines,         \* number of lines of the labels file
    rpc,            \* position of the reference-build process
    ri,             \* number of lines read and aggregated so far
    counts,         \* the Counter, as its items in insertion order
    examples,       \* examples[theme][category], a list for every pair
    answer,         \* what the chat completion call came back with
    ref_out,        \* the file at output_path
    exit_status,    \* exit status of the command
    offered         \* history: per pair, the  besoin  strings met for it, in order

rvars == <<nlines, rpc, ri, counts, examples, answer, ref_out, exit_status, offered>>

\* ------------------------------------------------------- generic helpers

Min(a, b) == IF a < b THEN a ELSE b
Max(a, b) == IF a > b THEN a ELSE b
Range(s) == {s[i] : i \in 1..Len(s)}
\* <<a, a+1, ..., b-1>>
Interval(a, b) == [i \in 1..Max(b - a, 0) |-> a + i - 1]

\* =========================================================================
\* preprocess.py
\* =========================================================================

\* first_start before any run has read the checkpoint.
NotLoaded == 0 - 1

\* A file of the file system: absent, or present with its text.
Absent == [exists |-> FALSE, text |-> <<>>]
File(s) == [exists |-> TRUE, text |-> s]
Digits == <<"0", "1", "2", "3", "4", "5", "6", "7", "8", "9">>
DigitChars == Range(Digits)
DigitVal(ch) == (CHOOSE i \in 1..10 : Digits[i] = ch) - 1

\* str(idx) for an integer
RECURSIVE StrNat(_)
StrNat(n) == IF n < 10 THEN <<Digits[n + 1]>>
             ELSE StrNat(n \div 10) \o <<Digits[(n % 10) + 1]>>
Str(n) == IF n < 0 THEN <<"-">> \o StrNat(0 - n) ELSE StrNat(n)

\* int(text): an optional sign followed by at least one digit, nothing else
RECURSIVE NatOf(_)
NatOf(s) == IF Len(s) = 0 THEN 0
            ELSE 10 * NatOf(SubSeq(s, 1, Len(s) - 1)) + DigitVal(s[Len(s)])
IsNat(s) == Len(s) > 0 /\ \A i \in 1..Len(s) : s[i] \in DigitChars
IsInt(s) == IF Len(s) > 0 /\ s[1] = "-" THEN IsNat(Tail(s)) ELSE IsNat(s)
IntOf(s) == IF s[1] = "-" THEN 0 - NatOf(Tail(s)) ELSE NatOf(s)

\* load_checkpoint with the except branch leaving a sentinel instead of 0.
load_checkpoint_sentinel(content) ==
    IF ~content.exists THEN 0
    ELSE IF IsInt(content.text) THEN IntOf(content.text)
    ELSE 0 - 1

\* load_checkpoint: the integer in the file; 0 when the file is absent or
\* int() raises.
load_checkpoint(content) ==
    IF ~content.exists THEN 0
    ELSE IF IsInt(content.text) THEN IntOf(content.text)
    ELSE 0

\* files[a:b] of a list of n elements, as the sequence of the indices taken
\* (Python slice semantics: negative bounds count from the end, all clamped).
SliceBound(n, x) == IF x < 0 THEN Max(n + x, 0) ELSE Min(x, n)
\* The slice taken one element too long: files[a: b + 1].
Slice_one_more(n, a, b) == Interval(SliceBound(n, a), SliceBound(n, b + 1))
Slice(n, a, b) == Interval(SliceBound(n, a), SliceBound(n, b))

\* What the checkpoint file can hold when a run starts: nothing, text int()
\* rejects (an empty file left by an interrupted write, foreign text), or the
\* value an earlier run wrote, possibly over a longer file list.
InitialCheckpoints ==
    {Absent, File(<<>>), File(<<"x">>)} \cup {File(Str(v)) : v \in 0..(MaxN + 1)}

InitPreVars ==
    /\ total \in 0..MaxN
    /\ batch_size \in 1..MaxBatch
    /\ cp_file \in InitialCheckpoints
    /\ ppc = "load"
    /\ start_idx = 0
    /\ idx = 0
    /\ batch = <<>>
    /\ k = 1
    /\ attempted = <<>>
    /\ failed = {}
    /\ written = <<>>
    /\ cp_at_start = Absent
    /\ prev_attempted = {}
    /\ first_start = NotLoaded
    /\ crashes = 0

\* start_idx = load_checkpoint(cp_path); the range() iterator starts there.
Preprocess_Load ==
    /\ ppc = "load"
    /\ start_idx' = load_checkpoint(cp_file)
    /\ idx' = load_checkpoint(cp_file)
    /\ cp_at_start' = cp_file
    /\ first_start' = IF first_start = NotLoaded THEN load_checkpoint(cp_file)
                       ELSE first_start
    /\ ppc' = "range"
    /\ UNCHANGED <<total, batch_size, cp_file, batch, k, attempted, failed,
                   written, prev_attempted, crashes>>
    /\ UNCHANGED <<lvars, rvars>>

\* for idx in range(start_idx, total, batch_size): batch = files[idx: idx + batch_size]
Preprocess_NextBatch ==
    /\ ppc = "range"
    /\ idx < total
    /\ batch' = Slice(total, idx, idx + batch_size)
    /\ k' = 1
    /\ ppc' = "item"
    /\ UNCHANGED <<total, batch_size, cp_file, start_idx, idx, attempted, failed,
                   written, cp_at_start, prev_attempted, first_start, crashes>>
    /\ UNCHANGED <<lvars, rvars>>

\* range() is exhausted: typer.echo("Preprocessing complete.")
Preprocess_Complete ==
    /\ ppc = "range"
    /\ idx >= total
    /\ ppc' = "done"
    /\ UNCHANGED <<total, batch_size, cp_file, start_idx, idx, batch, k, attempted,
                   failed, written, cp_at_start, prev_attempted, first_start, crashes>>
    /\ UNCHANGED <<lvars, rvars>>

\* for file in batch: try: ... except Exception: logger.error(...)
\* ok = FALSE is any exception of the try-block (unreadable file, bad JSON).
Preprocess_Item ==
    /\ ppc = "item"
    /\ k <= Len(batch)
    /\ \E ok \in BOOLEAN :
          /\ attempted' = Append(attempted, batch[k])
          /\ failed' = IF ok THEN failed ELSE failed \cup {batch[k]}
    /\ k' = k + 1
    /\ UNCHANGED <<total, batch_size, cp_file, ppc, start_idx, idx, batch,
                   written, cp_at_start, prev_attempted, first_start, crashes>>
    /\ UNCHANGED <<lvars, rvars>>

\* save_checkpoint, first half: write_text opens the file for writing, which
\* truncates it.
save_checkpoint_open ==
    /\ ppc = "item"
    /\ k > Len(batch)
    /\ cp_file' = File(<<>>)
    /\ ppc' = "write"
    /\ UNCHANGED <<total, batch_size, start_idx, idx, batch, k, attempted, failed,
                   written, cp_at_start, prev_attempted, first_start, crashes>>
    /\ UNCHANGED <<lvars, rvars>>

\* save_checkpoint called with idx + batch_size instead of idx + len(batch).
save_checkpoint_write_unclamped ==
    /\ ppc = "write"
    /\ cp_file' = File(Str(idx + batch_size))
    /\ written' = Append(written, [i |-> idx, v |-> idx + batch_size,
                                   n |-> Len(attempted)])
    /\ idx' = idx + batch_size
    /\ ppc' = "range"
    /\ UNCHANGED <<total, batch_size, start_idx, batch, k, attempted, failed,
                   cp_at_start, prev_attempted, first_start, crashes>>
    /\ UNCHANGED <<lvars, rvars>>

\* save_checkpoint, second half: str(idx + len(batch)) reaches the file; the
\* loop then takes the next value of range().
save_checkpoint_write ==
    /\ ppc = "write"
    /\ cp_file' = File(Str(idx + Len(batch)))
    /\ written' = Append(written, [i |-> idx, v |-> idx + Len(batch),
                                   n |-> Len(attempted)])
    /\ idx' = idx + batch_size
    /\ ppc' = "range"
    /\ UNCHANGED <<total, batch_size, start_idx, batch, k, attempted, failed,
                   cp_at_start, prev_attempted, first_start, crashes>>
    /\ UNCHANGED <<lvars, rvars>>

\* The process is killed; only the checkpoint file survives.
Preprocess_Crash ==
    /\ ppc \in {"load", "range", "item", "write"}
    /\ crashes < MaxCrashes
    /\ crashes' = crashes + 1
    /\ ppc' = "crashed"
    /\ UNCHANGED <<total, batch_size, cp_file, start_idx, idx, batch, k, attempted,
                   failed, written, cp_at_start, prev_attempted, first_start>>
    /\ UNCHANGED <<lvars, rvars>>

\* The command is started again over the same directory.
Preprocess_Restart ==
    /\ ppc = "crashed"
    /\ prev_attempted' = prev_attempted \cup Range(attempted)
    /\ ppc' = "load"
    /\ start_idx' = 0
    /\ idx' = 0
    /\ batch' = <<>>
    /\ k' = 1
    /\ attempted' = <<>>
    /\ failed' = {}
    /\ written' = <<>>
    /\ UNCHANGED <<total, batch_size, cp_file, cp_at_start, first_start, crashes>>
    /\ UNCHANGED <<lvars, rvars>>

NextPre ==
    \/ Preprocess_Load
    \/ Preprocess_NextBatch
    \/ Preprocess_Complete
    \/ Preprocess_Item
    \/ save_checkpoint_open
    \/ save_checkpoint_write
    \/ Preprocess_Crash
    \/ Preprocess_Restart

\* ------------------------------------------------- claims about preprocess

IsPrefix(s, t) == Len(s) <= Len(t) /\ s = SubSeq(t, 1, Len(s))
\* The run in progress has read its checkpoint.
Loaded == ppc # "load"
\* The checkpoint this run found holds an integer.
StartParsable == cp_at_start.exists /\ IsInt(cp_at_start.text)

\* C2: after a crash at any point of a run (the checkpoint write included)
\* and a restart over the same file list, the restarted run reprocesses at
\* most batch_size of the items processed before the crash, and processes
\* every item that was not processed before the crash.
C2_AtMostOneBatchRedone ==
    (crashes > 0 /\ ppc = "done" /\ first_start \in 0..total) =>
        /\ Cardinality(prev_attempted \cap Range(attempted)) <= batch_size
        /\ \A item \in 0..(total - 1) :
              item \in prev_attempted \/ item < first_start
                \/ item \in Range(attempted)

\* C5: a run started from a persisted checkpoint c with 0 <= c <= N attempts
\* exactly the items c .. N-1, each once and in index order, and no item
\* below c.
C5_ResumesExactlyAtCheckpoint ==
    (Loaded /\ StartParsable /\ IntOf(cp_at_start.text) \in 0..total) =>
        /\ IsPrefix(attempted, Interval(IntOf(cp_at_start.text), total))
        /\ ppc = "done" => attempted = Interval(IntOf(cp_at_start.text), total)

C5_Witness ==
    /\ ppc = "done"
    /\ crashes = 0
    /\ total = 4
    /\ batch_size = 2
    /\ cp_at_start = File(Str(1))
    /\ attempted = <<1, 2, 3>>

\* C6: the checkpoint file is written only once every item of the current
\* batch has been attempted, never in the middle of a batch, and the value
\* written for the batch starting at i is min(i + batch_size, N).
C6_CommitAfterFullBatch ==
    /\ \A j \in 1..Len(written) :
          /\ written[j].v = Min(written[j].i + batch_size, total)
          /\ written[j].n = written[j].v - start_idx
    /\ ppc = "write" =>
          k > Len(batch) /\ Range(batch) \subseteq Range(attempted)
    /\ ppc \in {"range", "item", "done"} =>
          cp_file = IF written = <<>> THEN cp_at_start
                    ELSE File(Str(written[Len(written)].v))

C6_Witness ==
    /\ ppc = "done"
    /\ Len(written) = 2
    /\ written[2].v = total
    /\ written[2].i + batch_size > total
    /\ failed # {}
    /\ cp_file = File(Str(total))

\* C10: when the checkpoint file is absent or its text is no integer, the
\* cursor starts at 0 and the run goes over all the items.
C10_BadCheckpointStartsAtZero ==
    (Loaded /\ ~StartParsable) =>
        /\ start_idx = 0
        /\ IsPrefix(attempted, Interval(0, total))
        /\ ppc = "done" => attempted = Interval(0, total)

C10_Witness ==
    /\ ppc = "done"
    /\ cp_at_start = File(<<"x">>)
    /\ total = 3
    /\ attempted = <<0, 1, 2>>

\* C17: in every state of a run, whatever integer the checkpoint file held
\* at the start, the cursor (the value load_checkpoint returned, and idx
\* inside the loop body) and every checkpoint value written are between 0
\* and N, the number of files of the sorted list.
C17_CursorWithinZeroAndN ==
    /\ Loaded => start_idx \in 0..total
    /\ ppc \in {"item", "write"} => idx \in 0..total
    /\ \A j \in 1..Len(written) :
          written[j].i \in 0..total /\ written[j].v \in 0..total

\* C18: when a run that no crash interrupted has terminated, the persisted
\* checkpoint (the value the file gives to load_checkpoint) equals N,
\* whatever items failed and whatever the checkpoint file held at the start.
C18_TerminatesAtN ==
    (ppc = "done" /\ crashes = 0) => load_checkpoint(cp_file) = total


\* =========================================================================
\* semantic.py
\* =========================================================================

\* ------------------------------------------------------------------ bounds

\* Numbers of files batch_label's patterns match.
FileCounts == 0..2
\* Numbers of conversations in a list-valued file.
ListLengths == 0..2
\* Largest number of times the labelling process is started in one behaviour.
MaxRuns == 2

\* full_text of a conversation: "" when it has no message text; "bad" stands
\* for a record on which conversation.get / msg.get raises (not a JSON object).
Texts == {"t1", "t2"}
EmptyText == ""
BadRecord == "bad"
Convs == Texts \cup {EmptyText, BadRecord}

DefaultLabel == [theme |-> "unknown", category |-> "unknown", confidence |-> 0]

\* JSON objects the classification collaborator answers with (confidence in
\* hundredths); a key may be missing.
Responses ==
    { [theme |-> "Paiement", category |-> "Carte refusee", confidence |-> 95],
      [category |-> "Code invalide"] }

\* result.get(key, default)
Get(result, key, default) == IF key \in DOMAIN result THEN result[key] ELSE default

\* The label built from the collaborator's JSON answer.
MakeLabel(result) ==
    [theme |-> Get(result, "theme", "unknown"),
     category |-> Get(result, "category", "unknown"),
     confidence |-> Get(result, "confidence", 0)]

\* The dict as a sequence of items.
Keys(cache) == {cache[i].k : i \in 1..Len(cache)}
Lookup(cache, text) == cache[CHOOSE i \in 1..Len(cache) : cache[i].k = text].v

\* json.dump(label_cache, cf): the tokens written, in order.
TokOpen == [t |-> "{", k |-> "", v |-> DefaultLabel]
TokClose == [t |-> "}", k |-> "", v |-> DefaultLabel]
TokItem(e) == [t |-> "item", k |-> e.k, v |-> e.v]
\* The bytes of a multi-byte UTF-8 character cut short: labels and texts are
\* French and json.dump is called with ensure_ascii=False.
TokBadByte == [t |-> "badbyte", k |-> "", v |-> DefaultLabel]
\* open(CACHE_PATH, "r", encoding="utf-8"): reading decodes strictly.
Decodable(text) == \A i \in 1..Len(text) : text[i] # TokBadByte

Serialize(cache) ==
    <<TokOpen>> \o [i \in 1..Len(cache) |-> TokItem(cache[i])] \o <<TokClose>>

\* json.load(cf): succeeds on a complete object only.
IsJsonObject(text) ==
    /\ Len(text) >= 2
    /\ text[1] = TokOpen
    /\ text[Len(text)] = TokClose
    /\ \A i \in 2..(Len(text) - 1) : text[i].t = "item"
ParseObject(text) == [i \in 1..(Len(text) - 2) |-> [k |-> text[i + 1].k, v |-> text[i + 1].v]]

\* The cache file is never read: every process starts with an empty dict.
LoadCache_never(f) == <<>>

\* semantic.py lines 29-37: the cache loaded at import.
LoadCache(f) ==
    IF ~f.exists THEN <<>>
    ELSE IF IsJsonObject(f.text) THEN ParseObject(f.text)
    ELSE <<>>

ConvSeqs == UNION {[1..m -> Convs] : m \in ListLengths}
InputFiles ==
    {[kind |-> "list", convs |-> cs] : cs \in ConvSeqs}
      \cup {[kind |-> "dict", convs |-> <<cv>>] : cv \in Convs}
      \cup {[kind |-> "broken", convs |-> <<>>]}
Inputs == UNION {[1..m -> InputFiles] : m \in FileCounts}

\* The cache file before the first run: none, or the one an earlier run left.
InitialCaches ==
    {Absent,
     File(Serialize(<<[k |-> "t1", v |-> MakeLabel([category |-> "Code invalide"])]>>))}

NoQuota == 0 - 1

InitLabelVars ==
    /\ files \in Inputs
    /\ cache_file \in InitialCaches
    /\ label_cache = <<>>
    /\ lpc = "import"
    /\ fi = 1
    /\ ci = 1
    /\ label = DefaultLabel
    /\ pending = <<>>
    /\ fout = <<>>
    /\ calls = <<>>
    /\ startup_keys = {}
    /\ flushed = cache_file
    /\ quota_lines = NoQuota
    /\ out1 = <<>>
    /\ prior = "none"
    /\ lrun = 1

\* The conversation label_conversation_summary is called with.
Conv == files[fi].convs[ci]
Cid == <<fi, ci>>

\* semantic.py lines 29-37
Import_LoadCache ==
    /\ lpc = "import"
    /\ cache_file.exists => Decodable(cache_file.text)
    /\ label_cache' = LoadCache(cache_file)
    /\ startup_keys' = Keys(LoadCache(cache_file))
    /\ lpc' = "glob"
    /\ UNCHANGED <<files, cache_file, fi, ci, label, pending, fout, calls, flushed,
                   quota_lines, out1, prior, lrun>>
    /\ UNCHANGED <<pvars, rvars>>

\* semantic.py line 33: json.load reads the file; bytes that are not UTF-8
\* raise UnicodeDecodeError, which is not a json.JSONDecodeError: the import
\* of the module fails and the command ends with a traceback.
Import_DecodeError ==
    /\ lpc = "import"
    /\ cache_file.exists
    /\ ~Decodable(cache_file.text)
    /\ lpc' = "import_error"
    /\ UNCHANGED <<files, cache_file, label_cache, fi, ci, label, pending, fout,
                   calls, startup_keys, flushed, quota_lines, out1, prior, lrun>>
    /\ UNCHANGED <<pvars, rvars>>

\* batch_label lines 169-176: no file matches, typer.Exit(code=1)
BatchLabel_NoFiles ==
    /\ lpc = "glob"
    /\ files = <<>>
    /\ lpc' = "exit1"
    /\ UNCHANGED <<files, cache_file, label_cache, fi, ci, label, pending, fout,
                   calls, startup_keys, flushed, quota_lines, out1, prior, lrun>>
    /\ UNCHANGED <<pvars, rvars>>

\* batch_label line 179: the output file is opened for writing (truncated).
BatchLabel_Open ==
    /\ lpc = "glob"
    /\ files # <<>>
    /\ fout' = <<>>
    /\ fi' = 1
    /\ ci' = 1
    /\ lpc' = "file"
    /\ UNCHANGED <<files, cache_file, label_cache, label, pending, calls,
                   startup_keys, flushed, quota_lines, out1, prior, lrun>>
    /\ UNCHANGED <<pvars, rvars>>

\* for path in files: exhausted; the with-block closes the output file.
BatchLabel_Done ==
    /\ lpc = "file"
    /\ fi > Len(files)
    /\ lpc' = "done"
    /\ UNCHANGED <<files, cache_file, label_cache, fi, ci, label, pending, fout,
                   calls, startup_keys, flushed, quota_lines, out1, prior, lrun>>
    /\ UNCHANGED <<pvars, rvars>>

\* lines 182-188 raise (unreadable file, invalid JSON): caught at line 202.
File_Broken ==
    /\ lpc = "file"
    /\ fi <= Len(files)
    /\ files[fi].kind = "broken"
    /\ fi' = fi + 1
    /\ UNCHANGED <<files, cache_file, label_cache, lpc, ci, label, pending, fout,
                   calls, startup_keys, flushed, quota_lines, out1, prior, lrun>>
    /\ UNCHANGED <<pvars, rvars>>

\* lines 191-192: isinstance(data, list); an empty list has nothing to label.
File_List ==
    /\ lpc = "file"
    /\ fi <= Len(files)
    /\ files[fi].kind = "list"
    /\ IF Len(files[fi].convs) = 0
       THEN fi' = fi + 1 /\ UNCHANGED <<lpc, ci>>
       ELSE ci' = 1 /\ lpc' = "conv" /\ UNCHANGED fi
    /\ UNCHANGED <<files, cache_file, label_cache, label, pending, fout, calls,
                   startup_keys, flushed, quota_lines, out1, prior, lrun>>
    /\ UNCHANGED <<pvars, rvars>>

\* lines 197-198: isinstance(data, dict)
File_Dict ==
    /\ lpc = "file"
    /\ fi <= Len(files)
    /\ files[fi].kind = "dict"
    /\ ci' = 1
    /\ lpc' = "conv"
    /\ UNCHANGED <<files, cache_file, label_cache, fi, label, pending, fout, calls,
                   startup_keys, flushed, quota_lines, out1, prior, lrun>>
    /\ UNCHANGED <<pvars, rvars>>

\* label_conversation_summary lines 101-103 raise on a malformed record; the
\* exception leaves the for-conv loop and is caught at line 202.
Label_BadRecord ==
    /\ lpc = "conv"
    /\ Conv = BadRecord
    /\ fi' = fi + 1
    /\ lpc' = "file"
    /\ UNCHANGED <<files, cache_file, label_cache, ci, label, pending, fout, calls,
                   startup_keys, flushed, quota_lines, out1, prior, lrun>>
    /\ UNCHANGED <<pvars, rvars>>

\* lines 105-107: empty conversation
Label_Empty ==
    /\ lpc = "conv"
    /\ Conv = EmptyText
    /\ label' = DefaultLabel
    /\ lpc' = "line"
    /\ UNCHANGED <<files, cache_file, label_cache, fi, ci, pending, fout, calls,
                   startup_keys, flushed, quota_lines, out1, prior, lrun>>
    /\ UNCHANGED <<pvars, rvars>>

\* lines 109-111: cached label
Label_CacheHit ==
    /\ lpc = "conv"
    /\ Conv \in Texts
    /\ Conv \in Keys(label_cache)
    /\ label' = Lookup(label_cache, Conv)
    /\ lpc' = "line"
    /\ UNCHANGED <<files, cache_file, label_cache, fi, ci, pending, fout, calls,
                   startup_keys, flushed, quota_lines, out1, prior, lrun>>
    /\ UNCHANGED <<pvars, rvars>>

\* lines 133-149 and 158: the collaborator answers; the label is built and
\* stored in the dict.
Label_ClassifyOk ==
    /\ lpc = "conv"
    /\ Conv \in Texts
    /\ Conv \notin Keys(label_cache)
    /\ \E result \in Responses :
          /\ label' = MakeLabel(result)
          /\ label_cache' = Append(label_cache, [k |-> Conv, v |-> MakeLabel(result)])
    /\ calls' = Append(calls, [text |-> Conv, cid |-> Cid, outcome |-> "ok"])
    /\ lpc' = "save"
    /\ UNCHANGED <<files, cache_file, fi, ci, pending, fout, startup_keys, flushed,
                   quota_lines, out1, prior, lrun>>
    /\ UNCHANGED <<pvars, rvars>>

\* Without the  except Exception  of line 153: the error leaves
\* label_conversation_summary and is caught by batch_label at line 202.
Label_ClassifyFail_escapes ==
    /\ lpc = "conv"
    /\ Conv \in Texts
    /\ Conv \notin Keys(label_cache)
    /\ calls' = Append(calls, [text |-> Conv, cid |-> Cid, outcome |-> "fail"])
    /\ fi' = fi + 1
    /\ lpc' = "file"
    /\ UNCHANGED <<files, cache_file, label_cache, ci, label, pending, fout,
                   startup_keys, flushed, quota_lines, out1, prior, lrun>>
    /\ UNCHANGED <<pvars, rvars>>

\* The default label returned from the except branch itself: lines 158-159
\* are not reached, nothing is stored or flushed.
Label_ClassifyFail_uncached ==
    /\ lpc = "conv"
    /\ Conv \in Texts
    /\ Conv \notin Keys(label_cache)
    /\ label' = DefaultLabel
    /\ calls' = Append(calls, [text |-> Conv, cid |-> Cid, outcome |-> "fail"])
    /\ lpc' = "line"
    /\ UNCHANGED <<files, cache_file, label_cache, fi, ci, pending, fout,
                   startup_keys, flushed, quota_lines, out1, prior, lrun>>
    /\ UNCHANGED <<pvars, rvars>>

\* lines 153-155 and 158: any exception but RateLimitError (API error, invalid
\* JSON answer, float() failing): the default label is stored in the dict.
Label_ClassifyFail ==
    /\ lpc = "conv"
    /\ Conv \in Texts
    /\ Conv \notin Keys(label_cache)
    /\ label' = DefaultLabel
    /\ label_cache' = Append(label_cache, [k |-> Conv, v |-> DefaultLabel])
    /\ calls' = Append(calls, [text |-> Conv, cid |-> Cid, outcome |-> "fail"])
    /\ lpc' = "save"
    /\ UNCHANGED <<files, cache_file, fi, ci, pending, fout, startup_keys, flushed,
                   quota_lines, out1, prior, lrun>>
    /\ UNCHANGED <<pvars, rvars>>

\* The quota signal handled like any other exception: the default label is
\* stored and flushed.
Label_ClassifyQuota_stores ==
    /\ lpc = "conv"
    /\ Conv \in Texts
    /\ Conv \notin Keys(label_cache)
    /\ calls' = Append(calls, [text |-> Conv, cid |-> Cid, outcome |-> "quota"])
    /\ quota_lines' = IF quota_lines = NoQuota THEN Len(fout) ELSE quota_lines
    /\ label' = DefaultLabel
    /\ label_cache' = Append(label_cache, [k |-> Conv, v |-> DefaultLabel])
    /\ lpc' = "save"
    /\ UNCHANGED <<files, cache_file, fi, ci, pending, fout, startup_keys, flushed,
                   out1, prior, lrun>>
    /\ UNCHANGED <<pvars, rvars>>

\* lines 150-152: RateLimitError, raise typer.Exit(code=2). typer.Exit is
\* click.exceptions.Exit, a RuntimeError: batch_label's  except Exception  at
\* line 202 catches it, logs it, and the for-path loop goes on.
Label_ClassifyQuota ==
    /\ lpc = "conv"
    /\ Conv \in Texts
    /\ Conv \notin Keys(label_cache)
    /\ calls' = Append(calls, [text |-> Conv, cid |-> Cid, outcome |-> "quota"])
    /\ quota_lines' = IF quota_lines = NoQuota THEN Len(fout) ELSE quota_lines
    /\ fi' = fi + 1
    /\ lpc' = "file"
    /\ UNCHANGED <<files, cache_file, label_cache, ci, label, pending, fout,
                   startup_keys, flushed, out1, prior, lrun>>
    /\ UNCHANGED <<pvars, rvars>>

\* The cache file opened in append mode: nothing is truncated.
save_cache_open_append ==
    /\ lpc = "save"
    /\ cache_file' = File(cache_file.text)
    /\ pending' = Serialize(label_cache)
    /\ lpc' = "dump"
    /\ UNCHANGED <<files, label_cache, fi, ci, label, fout, calls, startup_keys,
                   flushed, quota_lines, out1, prior, lrun>>
    /\ UNCHANGED <<pvars, rvars>>

\* save_cache line 41: open(CACHE_PATH, "w") truncates the cache file.
save_cache_open ==
    /\ lpc = "save"
    /\ cache_file' = File(<<>>)
    /\ pending' = Serialize(label_cache)
    /\ lpc' = "dump"
    /\ UNCHANGED <<files, label_cache, fi, ci, label, fout, calls, startup_keys,
                   flushed, quota_lines, out1, prior, lrun>>
    /\ UNCHANGED <<pvars, rvars>>

\* save_cache line 42: json.dump writes the next token; after the last one
\* the file is closed and label_conversation_summary returns.
save_cache_dump ==
    /\ lpc = "dump"
    /\ pending # <<>>
    /\ cache_file' = File(Append(cache_file.text, Head(pending)))
    /\ pending' = Tail(pending)
    /\ IF Len(pending) = 1
       THEN lpc' = "line" /\ flushed' = File(Append(cache_file.text, Head(pending)))
       ELSE UNCHANGED <<lpc, flushed>>
    /\ UNCHANGED <<files, label_cache, fi, ci, label, fout, calls, startup_keys,
                   quota_lines, out1, prior, lrun>>
    /\ UNCHANGED <<pvars, rvars>>

\* lines 193-196 / 198-201: extract_use_cases (which catches every exception
\* of its own call), then the label line is written; next conversation of a
\* list, else next file.
Write_Line ==
    /\ lpc = "line"
    /\ fout' = Append(fout, [cid |-> Cid, label |-> label])
    /\ IF files[fi].kind = "list" /\ ci < Len(files[fi].convs)
       THEN ci' = ci + 1 /\ lpc' = "conv" /\ UNCHANGED fi
       ELSE fi' = fi + 1 /\ lpc' = "file" /\ UNCHANGED ci
    /\ UNCHANGED <<files, cache_file, label_cache, label, pending, calls,
                   startup_keys, flushed, quota_lines, out1, prior, lrun>>
    /\ UNCHANGED <<pvars, rvars>>

\* The process is killed; the files on disk survive as they are.
Label_Crash ==
    /\ lpc \in {"import", "glob", "file", "conv", "save", "dump", "line"}
    /\ lrun < MaxRuns
    /\ lpc' = "crashed"
    /\ UNCHANGED <<files, cache_file, label_cache, fi, ci, label, pending, fout,
                   calls, startup_keys, flushed, quota_lines, out1, prior, lrun>>
    /\ UNCHANGED <<pvars, rvars>>

\* The process is killed right after label_conversation_summary has stored
\* a label and save_cache has returned (line 159), before the label line is
\* written.
Label_CrashAfterStore ==
    /\ lpc = "line"
    /\ Conv \in Texts
    /\ calls # <<>>
    /\ calls[Len(calls)].cid = Cid
    /\ lrun < MaxRuns
    /\ lpc' = "crashed_stored"
    /\ UNCHANGED <<files, cache_file, label_cache, fi, ci, label, pending, fout,
                   calls, startup_keys, flushed, quota_lines, out1, prior, lrun>>
    /\ UNCHANGED <<pvars, rvars>>

\* The process is killed while json.dump is writing an item: the buffer
\* reached the disk up to the middle of a multi-byte character.
Label_CrashMidItem ==
    /\ lpc = "dump"
    /\ pending # <<>>
    /\ Head(pending).t = "item"
    /\ lrun < MaxRuns
    /\ cache_file' = File(Append(cache_file.text, TokBadByte))
    /\ lpc' = "crashed"
    /\ UNCHANGED <<files, label_cache, fi, ci, label, pending, fout, calls,
                   startup_keys, flushed, quota_lines, out1, prior, lrun>>
    /\ UNCHANGED <<pvars, rvars>>

\* The command is run again on the same input, with the cache file as left.
Label_Restart ==
    /\ lpc \in {"done", "exit1", "crashed", "crashed_stored", "import_error"}
    /\ lrun < MaxRuns
    /\ lrun' = lrun + 1
    /\ prior' = IF lpc = "done" /\ quota_lines # NoQuota THEN "done_quota" ELSE lpc
    /\ out1' = IF lpc = "done" THEN fout ELSE <<>>
    /\ flushed' = cache_file
    /\ label_cache' = <<>>
    /\ lpc' = "import"
    /\ fi' = 1
    /\ ci' = 1
    /\ label' = DefaultLabel
    /\ pending' = <<>>
    /\ calls' = <<>>
    /\ startup_keys' = {}
    /\ quota_lines' = NoQuota
    /\ UNCHANGED <<files, cache_file, fout>>
    /\ UNCHANGED <<pvars, rvars>>

NextLabel ==
    \/ Import_LoadCache
    \/ Import_DecodeError
    \/ BatchLabel_NoFiles
    \/ BatchLabel_Open
    \/ BatchLabel_Done
    \/ File_Broken
    \/ File_List
    \/ File_Dict
    \/ Label_BadRecord
    \/ Label_Empty
    \/ Label_CacheHit
    \/ Label_ClassifyOk
    \/ Label_ClassifyFail
    \/ Label_ClassifyQuota
    \/ save_cache_open
    \/ save_cache_dump
    \/ Write_Line
    \/ Label_Crash
    \/ Label_CrashAfterStore
    \/ Label_CrashMidItem
    \/ Label_Restart


\* ---------------------------------------------------- claims about labelling

TextOf(cid) == files[cid[1]].convs[cid[2]]
HasLine(out, cid) == \E j \in 1..Len(out) : out[j].cid = cid
CallsFor(text) == {i \in 1..Len(calls) : calls[i].text = text}
\* The conversation was reached by label_conversation_summary and did not
\* come back with a label: malformed record, or quota signal.
Raised(cid) ==
    \/ TextOf(cid) = BadRecord
    \/ \E i \in 1..Len(calls) : calls[i].cid = cid /\ calls[i].outcome = "quota"

\* C1: once a classification call has raised the quota signal, the run
\* stops: no later conversation or file is processed, no further
\* classification call is made and no further label line is written.
C1_QuotaStopsRun ==
    quota_lines # NoQuota =>
        /\ calls[Len(calls)].outcome = "quota"
        /\ \A i \in 1..(Len(calls) - 1) : calls[i].outcome # "quota"
        /\ Len(fout) = quota_lines
        /\ lpc \notin {"conv", "save", "dump", "line"}

\* C3: a crash at any point of save_cache leaves the cache file equal to its
\* content after the previous completed flush, or to the complete new
\* content; it is never truncated or partially written.
C3_CacheFileNeverTorn ==
    lpc = "crashed" =>
        \/ cache_file = flushed
        \/ cache_file = File(Serialize(label_cache))

\* C4: within one process the classification collaborator is invoked at
\* most once per distinct non-empty text, and never for a text that was a
\* key of the cache loaded at startup.
C4_AtMostOneCallPerText ==
    \A text \in Texts :
        /\ Cardinality(CallsFor(text)) <= 1
        /\ text \in startup_keys => CallsFor(text) = {}

\* C7: a failure on one conversation does not prevent the others from being
\* labelled: when batch_label has finished (no quota signal raised), every
\* well-formed conversation of every readable file has its label line,
\* those that follow a failing record in the same list-valued file included.
C7_OneBadItemNeverBlocksTheRest ==
    (lpc = "done" /\ quota_lines = NoQuota) =>
        \A f \in 1..Len(files) : \A c \in 1..Len(files[f].convs) :
            files[f].convs[c] # BadRecord => HasLine(fout, <<f, c>>)

PriorCompleted == lrun >= 2 /\ prior \in {"done", "done_quota"}

C9_GenericFailureGivesDefault ==
    \A i \in 1..Len(calls) :
        calls[i].outcome = "fail" =>
            LET f == calls[i].cid[1]
                c == calls[i].cid[2]
            IN  \/ lpc \in {"crashed", "crashed_stored"}
                \/ /\ Cid = <<f, c>>
                   /\ lpc \in {"save", "dump", "line"}
                   /\ label = DefaultLabel
                \/ /\ \E j \in 1..Len(fout) :
                         fout[j] = [cid |-> <<f, c>>, label |-> DefaultLabel]
                   /\ (fi > f /\ files[f].kind = "list" /\ c < Len(files[f].convs)) =>
                         HasLine(fout, <<f, c + 1>>) \/ Raised(<<f, c + 1>>)

C9_Witness ==
    /\ lpc = "done"
    /\ lrun = 1
    /\ Len(files) = 1
    /\ files[1] = [kind |-> "list", convs |-> <<"t1", "t2">>]
    /\ Len(calls) = 2
    /\ calls[1] = [text |-> "t1", cid |-> <<1, 1>>, outcome |-> "fail"]
    /\ calls[2].outcome = "ok"
    /\ Len(fout) = 2
    /\ fout[1] = [cid |-> <<1, 1>>, label |-> DefaultLabel]
    /\ fout[2].cid = <<1, 2>>
    /\ fout[2].label # DefaultLabel

\* The cache file as the process found it: it exists and holds one complete
\* JSON object.
StartFileValid == flushed.exists /\ Decodable(flushed.text) /\ IsJsonObject(flushed.text)

\* C11: a missing or corrupt cache file yields an empty cache and the run
\* proceeds: the import never aborts, the dict loaded from such a file is
\* empty, and a label built while the run goes on is stored in it.
C11_BadCacheFileIsEmptyCache ==
    /\ lpc # "import_error"
    /\ (lpc = "glob" /\ ~StartFileValid) => label_cache = <<>>
    /\ (lpc = "save" /\ startup_keys = {}) => Conv \in Keys(label_cache)

\* No store is in progress: every store begun by this process has returned.
StoreReturned == lpc \in {"glob", "file", "conv", "line", "done", "exit1"}

\* C12: whenever a store has returned, the cache file holds every entry of
\* the dict, the one just stored included; when the process is killed right
\* after a store has returned, the file it leaves loads, at the next start,
\* as a cache in which the text just stored has the label just stored.
C12_StoredEntryIsDurable ==
    /\ StoreReturned => LoadCache(cache_file) = label_cache
    /\ lpc = "crashed_stored" =>
          /\ Decodable(cache_file.text)
          /\ Conv \in Keys(LoadCache(cache_file))
          /\ Lookup(LoadCache(cache_file), Conv) = label
    /\ (lrun >= 2 /\ prior = "crashed_stored" /\ lpc = "glob") =>
          /\ label_cache # <<>>
          /\ label_cache = LoadCache(flushed)

C12_Witness ==
    /\ lpc = "crashed_stored"
    /\ Conv = "t2"
    /\ label = MakeLabel([theme |-> "Paiement", category |-> "Carte refusee",
                          confidence |-> 95])
    /\ startup_keys = {"t1"}
    /\ Keys(label_cache) = {"t1", "t2"}
    /\ calls[Len(calls)] = [text |-> "t2", cid |-> Cid, outcome |-> "ok"]

\* C20: the step in which a classification call ends with the quota signal
\* leaves the cache as it was: the dict gets no entry for the text, the
\* cache file is not touched and no save_cache is started for that call.
C20_QuotaLeavesCacheUnchanged ==
    [][(/\ Len(calls') = Len(calls) + 1
        /\ calls'[Len(calls')].outcome = "quota")
         => /\ label_cache' = label_cache
            /\ cache_file' = cache_file
            /\ calls'[Len(calls')].text \notin Keys(label_cache')
            /\ lpc' \notin {"save", "dump"}]_<<pvars, lvars, rvars>>

C20_Witness ==
    /\ lpc = "file"
    /\ Len(calls) = 2
    /\ calls[1] = [text |-> "t1", cid |-> <<1, 1>>, outcome |-> "ok"]
    /\ calls[2] = [text |-> "t2", cid |-> <<1, 2>>, outcome |-> "quota"]
    /\ Keys(label_cache) = {"t1"}
    /\ cache_file = File(Serialize(label_cache))
    /\ Len(fout) = 1

\* The text has the default label in the dict.
CachedDefault(text) ==
    text \in Keys(label_cache) /\ Lookup(label_cache, text) = DefaultLabel
\* Every label line written for a conversation of that text is the default.
LinesAreDefault(text) ==
    \A j \in 1..Len(fout) : TextOf(fout[j].cid) = text => fout[j].label = DefaultLabel

\* C21: a non-quota failure of the classification call for a text stores the
\* default label in the dict and flushes it like any label: the text is not
\* classified again in that run, nor in a later run that loaded the entry,
\* and every line written for it carries the default label. An empty text
\* gets the default label with no call and no cache entry.
C21_DefaultLabelIsCached ==
    /\ \A i \in 1..Len(calls) :
          calls[i].outcome = "fail" =>
              /\ CachedDefault(calls[i].text)
              /\ \A n \in (i + 1)..Len(calls) : calls[n].text # calls[i].text
              /\ LinesAreDefault(calls[i].text)
              /\ StoreReturned =>
                    /\ calls[i].text \in Keys(LoadCache(cache_file))
                    /\ Lookup(LoadCache(cache_file), calls[i].text) = DefaultLabel
    /\ \A text \in Texts :
          (text \in startup_keys /\ CachedDefault(text)) =>
              /\ CallsFor(text) = {}
              /\ LinesAreDefault(text)
    /\ EmptyText \notin Keys(label_cache)
    /\ \A i \in 1..Len(calls) : calls[i].text # EmptyText
    /\ LinesAreDefault(EmptyText)

C21_Witness ==
    /\ lrun = 2
    /\ prior = "done"
    /\ lpc = "done"
    /\ files = <<[kind |-> "list", convs |-> <<"t2", "t2">>],
                 [kind |-> "dict", convs |-> <<EmptyText>>]>>
    /\ startup_keys = {"t2"}
    /\ CachedDefault("t2")
    /\ calls = <<>>
    /\ Len(fout) = 3
    /\ fout = out1

\* --------------------------------------------------------------- build_ref

\* Numbers of lines of the labels file.
LineCounts == 0..3

\* Values of the theme and category fields of a labels record; "unknown" is
\* what the labeller writes for its default label.
RefThemes == {"Paiement", "unknown"}
RefCategories == {"Carte refusee", "unknown"}
\* conv.get("theme", "inconnu"), conv.get("categorie", "inconnu")
Inconnu == "inconnu"
Pairs == (RefThemes \cup {Inconnu}) \X (RefCategories \cup {Inconnu})

\* The items of a record's use_cases list: with a  besoin , or without.
Besoins == {"b1", "b2"}
UseCases == {[besoin |-> b, solution |-> "s"] : b \in Besoins} \cup {[solution |-> "s"]}
UseCaseLists == UNION {[1..m -> UseCases] : m \in 0..1}

\* The JSON objects of the labels file. batch_label writes the keys
\* (conversation_id,) theme, category, (confidence,) use_cases; regroup_ref_llm
\* reads theme, categorie and use_cases. Any of them may be missing.
LabelRecords ==
    {[use_cases |-> u] : u \in UseCaseLists}
      \cup {[theme |-> t, use_cases |-> u] : t \in RefThemes, u \in UseCaseLists}
      \cup {[categorie |-> c, use_cases |-> u] : c \in RefCategories, u \in UseCaseLists}
      \cup {[theme |-> t, categorie |-> c, use_cases |-> u] :
                t \in RefThemes, c \in RefCategories, u \in UseCaseLists}
      \cup {[theme |-> t, category |-> c, use_cases |-> u] :
                t \in RefThemes, c \in RefCategories, u \in UseCaseLists}

\* counts[key] += 1
HasKey(cnt, key) == \E i \in 1..Len(cnt) : cnt[i].key = key
Incr(cnt, key) ==
    IF HasKey(cnt, key)
    THEN [i \in 1..Len(cnt) |->
            IF cnt[i].key = key THEN [key |-> key, n |-> cnt[i].n + 1] ELSE cnt[i]]
    ELSE Append(cnt, [key |-> key, n |-> 1])

\* The list keeps whatever is appended: no cap.
RECURSIVE OfferAll_uncapped(_, _)
OfferAll_uncapped(ex, ucs) ==
    IF ucs = <<>> THEN ex
    ELSE OfferAll_uncapped(IF "besoin" \in DOMAIN Head(ucs)
                           THEN Append(ex, Head(ucs).besoin) ELSE ex,
                           Tail(ucs))

\* build_ref.py lines 44-46: for uc in conv.get("use_cases", []), the
\* besoin  is appended while the list has fewer than 2 entries.
RECURSIVE OfferAll(_, _)
OfferAll(ex, ucs) ==
    IF ucs = <<>> THEN ex
    ELSE OfferAll(IF "besoin" \in DOMAIN Head(ucs) /\ Len(ex) < 2
                  THEN Append(ex, Head(ucs).besoin) ELSE ex,
                  Tail(ucs))

\* The  besoin  strings of a use_cases list, in order.
RECURSIVE Offers(_)
Offers(ucs) ==
    IF ucs = <<>> THEN <<>>
    ELSE (IF "besoin" \in DOMAIN Head(ucs) THEN <<Head(ucs).besoin>> ELSE <<>>)
            \o Offers(Tail(ucs))

NotExited == 0 - 1
NoAnswer == [kind |-> "none"]

InitRefVars ==
    /\ nlines \in LineCounts
    /\ rpc = "lines"
    /\ ri = 0
    /\ counts = <<>>
    /\ examples = [p \in Pairs |-> <<>>]
    /\ answer = NoAnswer
    /\ ref_out = Absent
    /\ exit_status = NotExited
    /\ offered = [p \in Pairs |-> <<>>]

\* build_ref.py lines 27-33: the line is not JSON; it is reported and skipped.
Line_Invalid ==
    /\ rpc = "lines"
    /\ ri < nlines
    /\ ri' = ri + 1
    /\ UNCHANGED <<nlines, rpc, counts, examples, answer, ref_out, exit_status,
                   offered>>
    /\ UNCHANGED <<pvars, lvars>>

\* build_ref.py lines 27-31 and 39-46: the line is a JSON object; it is kept
\* in cleaned_lines and aggregated, in the order of the file. (The second
\* loop goes over cleaned_lines in that order; the record is drawn when the
\* loop reaches it.)
Line_Record ==
    /\ rpc = "lines"
    /\ ri < nlines
    /\ \E conv \in LabelRecords :
          LET theme == Get(conv, "theme", Inconnu)
              category == Get(conv, "categorie", Inconnu)
              key == <<theme, category>>
          IN  /\ counts' = Incr(counts, key)
              /\ examples' = [examples EXCEPT
                                ![key] = OfferAll(@, Get(conv, "use_cases", <<>>))]
              /\ offered' = [offered EXCEPT
                                ![key] = @ \o Offers(Get(conv, "use_cases", <<>>))]
    /\ ri' = ri + 1
    /\ UNCHANGED <<nlines, rpc, answer, ref_out, exit_status>>
    /\ UNCHANGED <<pvars, lvars>>

\* build_ref.py lines 76-79: one entry per key of counts, in insertion order.
ContentToSend(cnt, ex) ==
    [i \in 1..Len(cnt) |->
        [theme |-> cnt[i].key[1], categorie |-> cnt[i].key[2],
         frequency |-> cnt[i].n, examples |-> ex[cnt[i].key]]]

\* The themes of the entries, each once, in first-seen order.
RECURSIVE ThemesOf(_)
ThemesOf(content) ==
    IF content = <<>> THEN <<>>
    ELSE LET rest == ThemesOf(SubSeq(content, 1, Len(content) - 1))
             t == content[Len(content)].theme
         IN  IF t \in Range(rest) THEN rest ELSE Append(rest, t)

EntriesOf(content, t) == SelectSeq(content, LAMBDA e : e.theme = t)

RECURSIVE SumFrequency(_)
SumFrequency(entries) ==
    IF entries = <<>> THEN 0
    ELSE Head(entries).frequency + SumFrequency(Tail(entries))

RECURSIVE AllExamples(_)
AllExamples(entries) ==
    IF entries = <<>> THEN <<>>
    ELSE Head(entries).examples \o AllExamples(Tail(entries))

\* Descending frequency, equal frequencies in the order given.
InsertDesc(sorted, e) ==
    LET pos == Cardinality({i \in 1..Len(sorted) : sorted[i].frequency >= e.frequency})
    IN  SubSeq(sorted, 1, pos) \o <<e>> \o SubSeq(sorted, pos + 1, Len(sorted))
RECURSIVE SortDesc(_)
SortDesc(entries) ==
    IF entries = <<>> THEN <<>>
    ELSE InsertDesc(SortDesc(SubSeq(entries, 1, Len(entries) - 1)),
                    entries[Len(entries)])

\* The regroupings the collaborator may answer with ("Regroupe les
\* categories similaires entre elles"): every category kept as it is, or the
\* categories of a theme put together under the name of the last one sent.
Regrouped(content, merge) ==
    IF merge = "none" THEN content
    ELSE LET themes == ThemesOf(content)
         IN  [i \in 1..Len(themes) |->
                LET es == EntriesOf(content, themes[i])
                IN  [theme |-> themes[i],
                     categorie |-> es[Len(es)].categorie,
                     frequency |-> SumFrequency(es),
                     examples |-> SubSeq(AllExamples(es), 1,
                                         Min(2, Len(AllExamples(es))))]]

\* The JSON the prompt (lines 48-73) asks for: themes with theme_id, theme,
\* frequency and categories (category_id, category, frequency, examples).
\* The prompt fixes neither the order nor the first identifier.
Taxonomy(content, order, base, merge) ==
    LET grouped == Regrouped(content, merge)
        seen == ThemesOf(grouped)
        tentry == [i \in 1..Len(seen) |->
                     [theme |-> seen[i],
                      frequency |-> SumFrequency(EntriesOf(grouped, seen[i]))]]
        themes == IF order = "by_frequency" THEN SortDesc(tentry) ELSE tentry
    IN  [i \in 1..Len(themes) |->
           LET es == EntriesOf(grouped, themes[i].theme)
               cats == IF order = "by_frequency" THEN SortDesc(es) ELSE es
           IN  [theme_id |-> i - 1 + base,
                theme |-> themes[i].theme,
                frequency |-> themes[i].frequency,
                categories |->
                    [j \in 1..Len(cats) |->
                        [category_id |-> j - 1 + base,
                         category |-> cats[j].categorie,
                         frequency |-> cats[j].frequency,
                         examples |-> cats[j].examples]]]]

Orders == {"by_frequency", "first_seen"}
FirstIds == {0, 1}
Merges == {"none", "into_last"}

\* build_ref.py lines 81-94: the call answers with JSON; it is parsed,
\* written to output_path as it is, and the command returns.
Regroup_Ok ==
    /\ rpc = "lines"
    /\ ri = nlines
    /\ \E order \in Orders, base \in FirstIds, merge \in Merges :
          /\ answer' = [kind |-> "json", order |-> order, base |-> base,
                        merge |-> merge]
          /\ ref_out' = File(Taxonomy(ContentToSend(counts, examples),
                                      order, base, merge))
    /\ exit_status' = 0
    /\ rpc' = "done"
    /\ UNCHANGED <<nlines, ri, counts, examples, offered>>
    /\ UNCHANGED <<pvars, lvars>>

\* build_ref.py lines 81-96: the call raises (quota exceeded, authentication
\* refused), or its answer is not JSON, or output_path cannot be opened for
\* writing: except Exception prints the error and the command returns.
Regroup_Error ==
    /\ rpc = "lines"
    /\ ri = nlines
    /\ \E kind \in {"quota", "auth", "not_json", "unwritable"} :
          answer' = [kind |-> kind]
    /\ exit_status' = 0
    /\ rpc' = "done"
    /\ UNCHANGED <<nlines, ri, counts, examples, ref_out, offered>>
    /\ UNCHANGED <<pvars, lvars>>

NextRef ==
    \/ Line_Invalid
    \/ Line_Record
    \/ Regroup_Ok
    \/ Regroup_Error

\* ---------------------------------------------------- claims about build_ref

\* C13: for every (theme, category) pair, at any point of the aggregation,
\* the example list holds at most 2 strings and they are the first two
\* offered for the pair, in the order they were offered: nothing offered
\* later evicts, replaces or reorders them.
C13_ExamplesAreFirstTwoOffered ==
    \A p \in Pairs :
        /\ Len(examples[p]) <= 2
        /\ examples[p] = SubSeq(offered[p], 1, Min(2, Len(offered[p])))

C13_Witness ==
    /\ ri = 3
    /\ offered[<<"Paiement", "Carte refusee">>] = <<"b1", "b2", "b1">>
    /\ examples[<<"Paiement", "Carte refusee">>] = <<"b1", "b2">>

\* The categories the written taxonomy lists under a theme.
ListedCategories(t) ==
    UNION {{ref_out.text[i].categories[j].category :
                j \in 1..Len(ref_out.text[i].categories)} :
           i \in {n \in 1..Len(ref_out.text) : ref_out.text[n].theme = t}}
\* The category a pair seen so far stands under: the key it is counted
\* under while the labels are aggregated, and its category in the taxonomy
\* once that is written.
CanonicalOf(p) ==
    IF ~ref_out.exists \/ p[2] \in ListedCategories(p[1]) THEN p[2]
    ELSE CHOOSE c \in ListedCategories(p[1]) : TRUE

\* C14: within one run, the category a (theme, raw category) pair stands
\* under is fixed when the pair is first seen: the table of pairs only
\* grows, and no later step changes or removes what a pair was given.
C14_AliasFixedAtFirstSight ==
    [][\A i \in 1..Len(counts) :
          /\ i <= Len(counts')
          /\ counts'[i].key = counts[i].key
          /\ CanonicalOf(counts[i].key)' = CanonicalOf(counts[i].key)]_<<pvars, lvars, rvars>>

\* Position at which a theme, or a (theme, category) key, was first counted.
FirstSeenTheme(t) ==
    CHOOSE i \in 1..Len(counts) :
        /\ counts[i].key[1] = t
        /\ \A n \in 1..(i - 1) : counts[n].key[1] # t
FirstSeenKey(t, c) == CHOOSE i \in 1..Len(counts) : counts[i].key = <<t, c>>

\* C15: the taxonomy written lists the themes by descending total frequency
\* (the sum over the theme's categories), equal totals in first-seen order;
\* the categories of a theme by descending frequency, equal ones in
\* first-seen order; theme_id and category_id count from 0 in that order.
C15_TaxonomyRankedAndNumbered ==
    ref_out.exists =>
        LET tax == ref_out.text
        IN  \A i \in 1..Len(tax) :
              LET cats == tax[i].categories
              IN  /\ tax[i].theme_id = i - 1
                  /\ tax[i].frequency = SumFrequency(cats)
                  /\ \A n \in (i + 1)..Len(tax) :
                        \/ tax[i].frequency > tax[n].frequency
                        \/ /\ tax[i].frequency = tax[n].frequency
                           /\ FirstSeenTheme(tax[i].theme) < FirstSeenTheme(tax[n].theme)
                  /\ \A a \in 1..Len(cats) :
                        /\ cats[a].category_id = a - 1
                        /\ \A b \in (a + 1)..Len(cats) :
                              \/ cats[a].frequency > cats[b].frequency
                              \/ /\ cats[a].frequency = cats[b].frequency
                                 /\ FirstSeenKey(tax[i].theme, cats[a].category)
                                      < FirstSeenKey(tax[i].theme, cats[b].category)

\* C16: each command ends with a non-zero exit status when an unrecoverable
\* error occurred during the run (quota or authentication failure of the
\* collaborator, output path that cannot be written) and with status zero
\* otherwise: regroup_ref_llm by its exit status; batch_label, which returns
\* normally (status zero) when it reaches the end of its loop, only when no
\* call raised the quota signal.
C16_ExitStatusTellsFatalErrors ==
    /\ (rpc = "done" /\ answer.kind \in {"quota", "auth", "unwritable"}) =>
          exit_status # 0
    /\ (rpc = "done" /\ answer.kind = "json") => exit_status = 0
    /\ lpc = "done" => quota_lines = NoQuota

\* C19: a record whose theme or category is missing or unknown is counted
\* under the sentinel "unknown": no key holds another placeholder, and a
\* theme has at most one key for its unknown or missing categories.
C19_UnknownIsOneSentinel ==
    \A i \in 1..Len(counts) :
        /\ counts[i].key[1] # Inconnu
        /\ counts[i].key[2] # Inconnu
        /\ \A n \in 1..Len(counts) :
              (/\ counts[n].key[1] = counts[i].key[1]
               /\ counts[i].key[2] \in {"unknown", Inconnu}
               /\ counts[n].key[2] \in {"unknown", Inconnu}) => n = i

\* The other command is not running.
IdlePre ==
    /\ total = 0
    /\ batch_size = 1
    /\ cp_file = Absent
    /\ ppc = "idle"
    /\ start_idx = 0
    /\ idx = 0
    /\ batch = <<>>
    /\ k = 1
    /\ attempted = <<>>
    /\ failed = {}
    /\ written = <<>>
    /\ cp_at_start = Absent
    /\ prev_attempted = {}
    /\ first_start = NotLoaded
    /\ crashes = 0

IdleLabel ==
    /\ files = <<>>
    /\ cache_file = Absent
    /\ label_cache = <<>>
    /\ lpc = "idle"
    /\ fi = 1
    /\ ci = 1
    /\ label = DefaultLabel
    /\ pending = <<>>
    /\ fout = <<>>
    /\ calls = <<>>
    /\ startup_keys = {}
    /\ flushed = Absent
    /\ quota_lines = NoQuota
    /\ out1 = <<>>
    /\ prior = "none"
    /\ lrun = 1

IdleRef ==
    /\ nlines = 0
    /\ rpc = "idle"
    /\ ri = 0
    /\ counts = <<>>
    /\ examples = [p \in Pairs |-> <<>>]
    /\ answer = NoAnswer
    /\ ref_out = Absent
    /\ exit_status = NotExited
    /\ offered = [p \in Pairs |-> <<>>]

vars == <<pvars, lvars, rvars>>

InitPre == InitPreVars /\ IdleLabel /\ IdleRef
SpecPre == InitPre /\ [][NextPre]_vars

InitLabel == InitLabelVars /\ IdlePre /\ IdleRef
SpecLabel == InitLabel /\ [][NextLabel]_vars

InitRef == InitRefVars /\ IdlePre /\ IdleLabel
SpecRef == InitRef /\ [][NextRef]_vars

====
